---------------------------- MODULE Spec2Model ----------------------------
(***************************************************************************)
(* Model of matminer/descriptors/data.py: the Magpie table source          *)
(* (MagpieData), the pymatgen attribute source (PymatgenData) and the      *)
(* oxidation-state formula parser (get_composition_oxidation_state).       *)
(*                                                                         *)
(* Strings are sequences of one-character strings.  Amounts of a           *)
(* composition are counted in halves (the amount 1.5 is the number 3), so  *)
(* that fractional amounts exist and int() has something to truncate.      *)
(* Floats the code only stores and copies are integers here; not-a-number  *)
(* and None are values of their own.                                       *)
(***************************************************************************)
EXTENDS Integers, Sequences, FiniteSets, TLC

\* Longest formula string the callers pass, in element groups.
MaxGroups == 2

(***************************************************************************)
(* Characters and the string primitives the code uses.                     *)
(***************************************************************************)
UpperCase == {"A","B","C","D","E","F","G","H","I","J","K","L","M",
              "N","O","P","Q","R","S","T","U","V","W","X","Y","Z"}

LowerCase == {"a","b","c","d","e","f","g","h","i","j","k","l","m",
              "n","o","p","q","r","s","t","u","v","w","x","y","z"}

Letters == UpperCase \cup LowerCase

Digits == {"0","1","2","3","4","5","6","7","8","9"}

Signs == {"+","-"}

WhiteSpace == {" "}

DigitVal(c) ==
  CASE c = "0" -> 0 [] c = "1" -> 1 [] c = "2" -> 2 [] c = "3" -> 3
    [] c = "4" -> 4 [] c = "5" -> 5 [] c = "6" -> 6 [] c = "7" -> 7
    [] c = "8" -> 8 [] c = "9" -> 9

\* "".join(parts)
RECURSIVE Join(_)
Join(parts) ==
  IF parts = <<>> THEN <<>> ELSE Head(parts) \o Join(Tail(parts))

\* str.strip()
RECURSIVE LStrip(_)
LStrip(s) ==
  IF s # <<>> /\ Head(s) \in WhiteSpace THEN LStrip(Tail(s)) ELSE s

RECURSIVE RStrip(_)
RStrip(s) ==
  IF s # <<>> /\ s[Len(s)] \in WhiteSpace
  THEN RStrip(SubSeq(s, 1, Len(s) - 1))
  ELSE s

Strip(s) == RStrip(LStrip(s))

\* re.split('[<seps>]+', s): the pieces between the maximal runs of separator
\* characters, the empty pieces at both ends included.
RECURSIVE SplitRunsFrom(_, _, _, _, _)
SplitRunsFrom(seps, s, i, cur, inRun) ==
  IF i > Len(s) THEN <<cur>>
  ELSE IF s[i] \in seps
       THEN IF inRun
            THEN SplitRunsFrom(seps, s, i + 1, <<>>, TRUE)
            ELSE <<cur>> \o SplitRunsFrom(seps, s, i + 1, <<>>, TRUE)
       ELSE SplitRunsFrom(seps, s, i + 1, Append(cur, s[i]), FALSE)

ReSplitRuns(seps, s) == SplitRunsFrom(seps, s, 1, <<>>, FALSE)

\* re.split('\d', g)[0]: what stands before the first digit.
RECURSIVE BeforeFirstDigit(_)
BeforeFirstDigit(g) ==
  IF g = <<>> \/ Head(g) \in Digits THEN <<>>
  ELSE <<Head(g)>> \o BeforeFirstDigit(Tail(g))

\* Position of the first occurrence of tok in s, 0 when there is none.
FindFirst(s, tok) ==
  LET hits == {i \in 1..(Len(s) - Len(tok) + 1) :
                 SubSeq(s, i, i + Len(tok) - 1) = tok}
  IN IF hits = {} THEN 0 ELSE CHOOSE i \in hits : \A j \in hits : i <= j

\* s.split(tok, 1): <<before, after>> at the first occurrence, <<s>> without one.
StrSplitOnce(s, tok) ==
  LET i == FindFirst(s, tok)
  IN IF i = 0 THEN <<s>>
     ELSE <<SubSeq(s, 1, i - 1), SubSeq(s, i + Len(tok), Len(s))>>

RECURSIVE DigitsValue(_, _)
DigitsValue(ds, acc) ==
  IF ds = <<>> THEN acc ELSE DigitsValue(Tail(ds), 10 * acc + DigitVal(Head(ds)))

AllDigits(ds) == ds # <<>> /\ \A i \in 1..Len(ds) : ds[i] \in Digits

\* int(text): an optional sign and a run of digits, blanks around it allowed.
IntOf(text) ==
  LET t    == Strip(text)
      body == IF t # <<>> /\ Head(t) \in Signs THEN Tail(t) ELSE t
  IN IF ~AllDigits(body) THEN [ok |-> FALSE, v |-> 0]
     ELSE [ok |-> TRUE,
           v  |-> IF Head(t) = "-" THEN 0 - DigitsValue(body, 0)
                  ELSE DigitsValue(body, 0)]

(***************************************************************************)
(* The chemistry library the module is written against (pymatgen): the     *)
(* periodic table, Element, get_el_sp(sym).X and Composition.  Floats are  *)
(* held times 100.                                                         *)
(***************************************************************************)
EmptyDict == [k \in {} |-> 0]

DictSet(d, k, v) == [x \in DOMAIN d \cup {k} |-> IF x = k THEN v ELSE d[x]]

NoneValue == [t |-> "none"]

NaN == [t |-> "nan"]

Float(v) == [t |-> "float", v |-> v]

\* _pt_data, cut to its first elements: line z is atomic number z.  X is
\* d.get("X", 0); an attribute the data has no value for reads as None.
PeriodicTable ==
  << [symbol |-> "H",  chars |-> <<"H">>,      X |-> 220,
      bulk_modulus |-> NoneValue, max_oxidation_state |-> 1,
      ionic_radii |-> (1 :> (0 - 18))],
     [symbol |-> "He", chars |-> <<"H", "e">>, X |-> 0,
      bulk_modulus |-> NoneValue, max_oxidation_state |-> 0,
      ionic_radii |-> EmptyDict],
     [symbol |-> "Li", chars |-> <<"L", "i">>, X |-> 98,
      bulk_modulus |-> Float(1100), max_oxidation_state |-> 1,
      ionic_radii |-> (1 :> 90)] >>

\* len(_pt_data)
MaxZ == Len(PeriodicTable)

\* Element.from_Z(atomic_no), as str
FromZ(z) == PeriodicTable[z].symbol

Symbols == {FromZ(z) : z \in 1..MaxZ}

ElementOf(sym) == PeriodicTable[CHOOSE z \in 1..MaxZ : FromZ(z) = sym]

\* get_el_sp(sym).X
Electronegativity(sym) == ElementOf(sym).X

\* Element(text): the element with that symbol, none for any other text.
ElementLookup(text) ==
  LET zs == {z \in 1..MaxZ : PeriodicTable[z].chars = text}
  IN IF zs = {} THEN [ok |-> FALSE, symbol |-> ""]
     ELSE [ok |-> TRUE, symbol |-> FromZ(CHOOSE z \in zs : TRUE)]

\* End of the run of characters of class cls that starts at position i of f
\* (i - 1 when f[i] is not of the class).
RECURSIVE RunEnd(_, _, _)
RunEnd(f, i, cls) ==
  IF i <= Len(f) /\ f[i] \in cls THEN RunEnd(f, i + 1, cls) ELSE i - 1

\* The characters Composition's formula pattern takes for an amount.
AmountChars == Digits \cup {"-", ".", "*"}

\* Composition(formula).get_el_amt_dict(): each capitalised symbol with the
\* amount written after it (1 when none), amounts of a repeated symbol added
\* up; anything else than blanks left over, an unknown symbol or an amount
\* that is no non-negative number is an invalid formula.
RECURSIVE ParseFormulaFrom(_, _, _)
ParseFormulaFrom(f, i, acc) ==
  IF i > Len(f) THEN [ok |-> TRUE, amt |-> acc]
  ELSE IF f[i] \in WhiteSpace THEN ParseFormulaFrom(f, i + 1, acc)
  ELSE IF f[i] \notin UpperCase THEN [ok |-> FALSE, amt |-> EmptyDict]
  ELSE
    LET symEnd == RunEnd(f, i + 1, LowerCase)
        el     == ElementLookup(SubSeq(f, i, symEnd))
        gapEnd == RunEnd(f, symEnd + 1, WhiteSpace)
        amtEnd == RunEnd(f, gapEnd + 1, AmountChars)
        text   == SubSeq(f, gapEnd + 1, amtEnd)
        next   == IF text = <<>> THEN symEnd + 1 ELSE amtEnd + 1
        halves == IF text = <<>> THEN 2 ELSE 2 * DigitsValue(text, 0)
    IN IF ~el.ok \/ (text # <<>> /\ ~AllDigits(text))
       THEN [ok |-> FALSE, amt |-> EmptyDict]
       ELSE ParseFormulaFrom(f, next,
              DictSet(acc, el.symbol,
                      IF el.symbol \in DOMAIN acc THEN acc[el.symbol] + halves
                      ELSE halves))

CompositionOf(formula) == ParseFormulaFrom(formula, 1, EmptyDict)

(***************************************************************************)
(* PymatgenData.get_composition_oxidation_state                            *)
(***************************************************************************)
HasSign(s) == \E i \in 1..Len(s) : s[i] \in Signs

\* sign = [x.strip() for x in sign_tmp if x.strip() != ""]
RECURSIVE NonBlank(_)
NonBlank(parts) ==
  IF parts = <<>> THEN <<>>
  ELSE IF Strip(Head(parts)) = <<>> THEN NonBlank(Tail(parts))
       ELSE <<Strip(Head(parts))>> \o NonBlank(Tail(parts))

\* Variant: digits[0] taken for the magnitude instead of digits[-1].
TokenOfFirstDigits(na) ==
  LET s == Strip(na)
  IN IF s # <<>> /\ HasSign(s)
     THEN LET digits == ReSplitRuns(Signs, s)
              sign   == NonBlank(ReSplitRuns(Digits, s))
          IN <<sign[Len(sign)] \o Strip(digits[1])>>
     ELSE <<>>

\* The token one non-letter segment yields: <<>> for a segment without a
\* sign, <<token>> otherwise.  sign is never empty where a sign is present.
TokenOf(na) ==
  LET s == Strip(na)
  IN IF s # <<>> /\ HasSign(s)
     THEN LET digits == ReSplitRuns(Signs, s)
              sign   == NonBlank(ReSplitRuns(Digits, s))
          IN <<sign[Len(sign)] \o Strip(digits[Len(digits)])>>
     ELSE <<>>

\* The loop of lines 201-207 over the non-letter segments.
RECURSIVE ExtractTokens(_)
ExtractTokens(segments) ==
  IF segments = <<>> THEN <<>>
  ELSE TokenOf(Head(segments)) \o ExtractTokens(Tail(segments))

\* Lines 210-215: the text before the first occurrence of each token, each
\* search starting after the token before it.  ok is false when a token is
\* not found (the two-name unpacking fails).
RECURSIVE SplitOffTokens(_, _, _)
SplitOffTokens(text, tokens, acc) ==
  IF tokens = <<>> THEN [ok |-> TRUE, plain |-> acc]
  ELSE LET parts == StrSplitOnce(text, Head(tokens))
       IN IF Len(parts) # 2 THEN [ok |-> FALSE, plain |-> acc]
          ELSE SplitOffTokens(parts[2], Tail(tokens), Append(acc, parts[1]))

\* Lines 216-218: the oxidation-state dictionary; int() is evaluated before
\* Element().
RECURSIVE BuildOxidationDict(_, _, _, _)
BuildOxidationDict(plain, tokens, i, acc) ==
  IF i > Len(plain) THEN [err |-> "none", oxi |-> acc]
  ELSE LET el  == ElementLookup(BeforeFirstDigit(Strip(plain[i])))
           val == IntOf(tokens[i])
       IN IF ~val.ok THEN [err |-> "ValueError", oxi |-> acc]
          ELSE IF ~el.ok THEN [err |-> "InvalidElement", oxi |-> acc]
          ELSE BuildOxidationDict(plain, tokens, i + 1,
                                  DictSet(acc, el.symbol, val.v))

ParseFailure(err, tokens) ==
  [err |-> err, comp |-> EmptyDict, oxi |-> EmptyDict, tokens |-> tokens]

\* Variant: no early return; oxidation_states[0] of the empty list raises.
PlainResultFallThrough(formula, tokens) == ParseFailure("IndexError", tokens)

\* Lines 198-199 and 208-209: no token, the formula as it is.
PlainResult(formula, tokens) ==
  LET comp == CompositionOf(formula)
  IN IF comp.ok
     THEN [err |-> "none", comp |-> comp.amt, oxi |-> EmptyDict, tokens |-> tokens]
     ELSE ParseFailure("FormulaParseError", tokens)

get_composition_oxidation_state(formula) ==
  LET non_alphabets    == ReSplitRuns(Letters, formula)
      oxidation_states == ExtractTokens(non_alphabets)
  IN IF non_alphabets = <<>> THEN PlainResult(formula, <<>>)
     ELSE IF oxidation_states = <<>> THEN PlainResult(formula, <<>>)
     ELSE
       LET split == SplitOffTokens(formula, oxidation_states, <<>>)
       IN IF ~split.ok THEN ParseFailure("ValueError", oxidation_states)
          ELSE
            LET dict == BuildOxidationDict(split.plain, oxidation_states, 1, EmptyDict)
                comp == CompositionOf(Join(split.plain))
            IN IF dict.err # "none" THEN ParseFailure(dict.err, oxidation_states)
               ELSE IF ~comp.ok THEN ParseFailure("FormulaParseError", oxidation_states)
               ELSE [err |-> "none", comp |-> comp.amt, oxi |-> dict.oxi,
                     tokens |-> oxidation_states]

(***************************************************************************)
(* Ordering and expansion, shared by both sources.                         *)
(***************************************************************************)
\* Variant: the symbols sorted by atomic number instead.
SortKeyAtomicNumber(sym) == CHOOSE z \in 1..MaxZ : FromZ(z) = sym

\* key=lambda sym: get_el_sp(sym).X
SortKey(sym) == Electronegativity(sym)

\* sorted(keys, key=...): the orders of the keys that ascend by the key.  The
\* sort is stable, so symbols with equal keys stay in the dictionary's own
\* order, which is any order.
SortedOrders(keys) ==
  {f \in [1..Cardinality(keys) -> keys] :
     /\ \A i, j \in DOMAIN f : i # j => f[i] # f[j]
     /\ \A i, j \in DOMAIN f : i < j => SortKey(f[i]) <= SortKey(f[j])}

\* Variant: the amount rounded up instead of truncated.
IntRoundUp(halves) == (halves + 1) \div 2

\* int(amount) of an amount held in halves: truncation towards zero.
IntTrunc(halves) ==
  IF halves >= 0 THEN halves \div 2 ELSE 0 - ((0 - halves) \div 2)

\* [x for _ in range(n)]
RECURSIVE Repeat(_, _)
Repeat(x, n) == IF n <= 0 THEN <<>> ELSE <<x>> \o Repeat(x, n - 1)

\* for el in symbols for _ in range(int(el_amt[el])): the element of each
\* position of the result.
RECURSIVE AtomList(_, _)
AtomList(symbols, el_amt) ==
  IF symbols = <<>> THEN <<>>
  ELSE Repeat(Head(symbols), IntTrunc(el_amt[Head(symbols)]))
         \o AtomList(Tail(symbols), el_amt)

(***************************************************************************)
(* MagpieData                                                              *)
(***************************************************************************)
\* float(token) for the tokens the data files hold.
FloatOfToken(tok) ==
  CASE tok = "1" -> [ok |-> TRUE, v |-> 100]
    [] tok = "2" -> [ok |-> TRUE, v |-> 200]
    [] OTHER     -> [ok |-> FALSE, v |-> 0]

\* Variant: the line read at index atomic_no.
LineIndexOneBased(atomic_no) == atomic_no

\* lines[atomic_no - 1] of a Python list held as a sequence from 1.
LineIndex(atomic_no) == atomic_no - 1

\* Lines 73-79: the value of one line (its blank-separated tokens).
ParseLine(descriptor_name, line) ==
  IF descriptor_name = "OxidationStates"
  THEN IF \A i \in 1..Len(line) : FloatOfToken(line[i]).ok
       THEN [t |-> "list", items |-> [i \in 1..Len(line) |-> FloatOfToken(line[i]).v]]
       ELSE NaN
  ELSE IF Len(line) = 1 /\ FloatOfToken(line[1]).ok
       THEN Float(FloatOfToken(line[1]).v)
       ELSE NaN

\* A file with fewer lines than elements: lines[...] raises IndexError.
FileTooShort(file) == \E z \in 1..MaxZ : LineIndex(z) + 1 > Len(file.lines)

\* One file's column of the table.
ParseFile(file) ==
  [sym \in Symbols |->
     LET z == CHOOSE a \in 1..MaxZ : FromZ(a) = sym
     IN ParseLine(file.name, file.lines[LineIndex(z) + 1])]

\* MagpieData._parse
ParseTable(dir) ==
  IF \E i \in 1..Len(dir) : FileTooShort(dir[i])
  THEN [ok |-> FALSE, table |-> EmptyDict]
  ELSE [ok |-> TRUE,
        table |-> [name \in {dir[i].name : i \in 1..Len(dir)} |->
                     ParseFile(dir[CHOOSE i \in 1..Len(dir) : dir[i].name = name])]]

\* Lines 60-61: the file names in the order glob returns them.
GlobNames(dir) == [i \in 1..Len(dir) |-> dir[i].name]

InList(x, list) == \E i \in 1..Len(list) : list[i] = x

\* Variant: the property name is not checked.
PropertyAvailableUnchecked(property_name, props) == TRUE

\* property_name in self.available_props
PropertyAvailable(property_name, props) == InList(property_name, props)

\* Composition(comp): a formula string is parsed, a Composition is taken as is.
ToComposition(input) ==
  IF input.kind = "str" THEN CompositionOf(input.text)
  ELSE [ok |-> TRUE, amt |-> input.amt]

Outcome(err, val, els, el_amt, oxi, msg) ==
  [err |-> err, val |-> val, els |-> els, el_amt |-> el_amt, oxi |-> oxi, msg |-> msg]

Failure(err, el_amt, oxi) == Outcome(err, <<>>, <<>>, el_amt, oxi, <<>>)

\* MagpieData.get_property with the order sorted() produced.  table is the
\* defaultdict all_elemental_props: reading a missing key inserts an empty
\* dictionary for it.
MagpieGetPropertyResult(input, property_name, symbols, props, table) ==
  LET comp == ToComposition(input)
  IN IF ~comp.ok
     THEN [res |-> Failure("FormulaParseError", EmptyDict, EmptyDict), table |-> table]
     ELSE IF ~PropertyAvailable(property_name, props)
     THEN [res |-> Outcome("UnknownProperty", <<>>, <<>>, comp.amt, EmptyDict, props),
           table |-> table]
     ELSE
       LET atoms == AtomList(symbols, comp.amt)
           row   == IF property_name \in DOMAIN table THEN table[property_name]
                    ELSE EmptyDict
           after == IF atoms = <<>> \/ property_name \in DOMAIN table THEN table
                    ELSE DictSet(table, property_name, EmptyDict)
       IN IF \E i \in 1..Len(atoms) : atoms[i] \notin DOMAIN row
          THEN [res |-> Failure("KeyError", comp.amt, EmptyDict), table |-> after]
          ELSE [res |-> Outcome("none", [i \in 1..Len(atoms) |-> row[atoms[i]]],
                                atoms, comp.amt, EmptyDict, <<>>),
                table |-> after]

(***************************************************************************)
(* PymatgenData.get_property                                               *)
(***************************************************************************)
\* Line 168: the attributes that carry no unit.
UnitlessProps == {"X", "Z", "group", "row", "number", "mendeleev_no", "ionic_radii"}

\* getattr(element, property_name): has is false for a name Element does not
\* have; unit tells whether the value is a float with a unit.
ElementAttr(sym, property_name) ==
  LET e == ElementOf(sym)
  IN CASE property_name = "X" ->
            [has |-> TRUE, p |-> Float(e.X), unit |-> FALSE]
       [] property_name = "bulk_modulus" ->
            [has |-> TRUE, p |-> e.bulk_modulus, unit |-> TRUE]
       [] property_name = "max_oxidation_state" ->
            [has |-> TRUE, p |-> Float(100 * e.max_oxidation_state), unit |-> FALSE]
       [] property_name = "ionic_radii" ->
            [has |-> TRUE, p |-> [t |-> "dict", d |-> e.ionic_radii], unit |-> FALSE]
       [] OTHER ->
            [has |-> FALSE, p |-> NoneValue, unit |-> FALSE]

\* if oxidation_states: (a dictionary is true when it is not empty)
OxidationStatesGiven(oxidation_states) == DOMAIN oxidation_states # {}

\* Lines 144-170 for one element: the error raised, or the property value.
ElementValue(sym, property_name, oxidation_states) ==
  LET a == ElementAttr(sym, property_name)
  IN IF ~a.has THEN [err |-> "AttributeError", value |-> NoneValue]
     ELSE IF a.p = NoneValue THEN [err |-> "none", value |-> NoneValue]
     ELSE IF property_name = "ionic_radii"
     THEN IF OxidationStatesGiven(oxidation_states)
          THEN IF sym \notin DOMAIN oxidation_states
                  \/ oxidation_states[sym] \notin DOMAIN a.p.d
               THEN [err |-> "KeyError", value |-> NoneValue]
               ELSE [err |-> "none", value |-> Float(a.p.d[oxidation_states[sym]])]
          ELSE [err |-> "MissingOxidationState", value |-> NoneValue]
     ELSE IF property_name \notin UnitlessProps /\ ~a.unit
          THEN [err |-> "AttributeError", value |-> NoneValue]
          ELSE [err |-> "none", value |-> a.p]

\* The loop of lines 142-179 from symbol i on.
RECURSIVE ElementLoop(_, _, _, _, _, _)
ElementLoop(symbols, i, property_name, el_amt, oxidation_states, eldata) ==
  IF i > Len(symbols)
  THEN Outcome("none", eldata.val, eldata.els, el_amt, oxidation_states, <<>>)
  ELSE LET sym == symbols[i]
           v   == ElementValue(sym, property_name, oxidation_states)
           n   == IntTrunc(el_amt[sym])
       IN IF v.err # "none" THEN Failure(v.err, el_amt, oxidation_states)
          ELSE ElementLoop(symbols, i + 1, property_name, el_amt, oxidation_states,
                           [val |-> eldata.val \o Repeat(v.value, n),
                            els |-> eldata.els \o Repeat(sym, n)])

\* Lines 127-138: the element amounts and oxidation states of the argument.
ResolveComposition(input) ==
  IF input.kind = "str"
  THEN LET r == get_composition_oxidation_state(input.text)
       IN [err |-> r.err, el_amt |-> r.comp, oxi |-> r.oxi]
  ELSE [err |-> "none", el_amt |-> input.amt, oxi |-> input.oxi]

PymatgenGetPropertyResult(resolved, property_name, symbols) ==
  IF resolved.err # "none" THEN Failure(resolved.err, EmptyDict, EmptyDict)
  ELSE ElementLoop(symbols, 1, property_name, resolved.el_amt, resolved.oxi,
                   [val |-> <<>>, els |-> <<>>])

(***************************************************************************)
(* What the callers pass.                                                  *)
(***************************************************************************)
\* One group of a formula string: an element symbol, a count, an oxidation
\* state.
Counts == {<<>>, <<"2">>}

OxidationTexts == {<<>>, <<"+", "1">>, <<"-", "2">>, <<" ", "+", "1">>}

Groups == [el : Symbols, count : Counts, ox : OxidationTexts]

GroupSeqs == UNION {[1..n -> Groups] : n \in 0..MaxGroups}

GroupText(g) == ElementOf(g.el).chars \o g.count \o g.ox

RECURSIVE FormulaText(_)
FormulaText(groups) ==
  IF groups = <<>> THEN <<>>
  ELSE GroupText(Head(groups)) \o FormulaText(Tail(groups))

StrInput(text) == [kind |-> "str", text |-> text]

\* Formula strings without oxidation states, and two that are no formula.
PlainGroupSeqs == {g \in GroupSeqs : \A i \in 1..Len(g) : g[i].ox = <<>>}

BadFormulas == {<<"2", "H">>, <<"H", "+", "1">>}

\* Composition objects: amounts in halves (0.5, 1.5, 2), over plain Elements
\* (oxi empty) or over Species that all carry an oxidation state.
HalfAmounts == {1, 3, 4}

OxidationStates == {1, 0 - 2}

ElementSets == (SUBSET Symbols) \ {{}}

PlainCompositions ==
  UNION {{[kind |-> "comp", amt |-> a, oxi |-> EmptyDict] : a \in [S -> HalfAmounts]}
         : S \in ElementSets}

SpeciesCompositions ==
  UNION {{[kind |-> "comp", amt |-> a, oxi |-> o] :
            a \in [S -> HalfAmounts], o \in [S -> OxidationStates]}
         : S \in ElementSets}

TableInputs ==
  {StrInput(FormulaText(g)) : g \in PlainGroupSeqs}
    \cup {StrInput(f) : f \in BadFormulas}
    \cup PlainCompositions

LiveInputs ==
  {StrInput(FormulaText(g)) : g \in GroupSeqs}
    \cup PlainCompositions \cup SpeciesCompositions

TableProps == {"MeltingT", "OxidationStates", "Volume"}

LiveProps == {"X", "bulk_modulus", "ionic_radii", "max_oxidation_state", "foo"}

\* The data files: the lines a file may hold, and the directories.
FileNames == {"MeltingT", "OxidationStates"}

Lines == {<<>>, <<"1">>, <<"2">>, <<"Missing">>, <<"1", "2">>}

LineSeqs == UNION {[1..n -> Lines] : n \in {MaxZ - 1, MaxZ}}

Files == [name : FileNames, lines : LineSeqs]

AllDataDirs ==
  {d \in UNION {[1..n -> Files] : n \in 0..Cardinality(FileNames)} :
     \A i, j \in 1..Len(d) : i # j => d[i].name # d[j].name}

\* The directory as shipped: every file complete, one value missing.
ShippedDataDir ==
  << [name |-> "OxidationStates", lines |-> << <<"1">>, <<>>, <<"1", "2">> >>],
     [name |-> "MeltingT", lines |-> << <<"1">>, <<"Missing">>, <<"2">> >>] >>

(***************************************************************************)
(* State                                                                   *)
(***************************************************************************)
VARIABLES
  data_dir,             \* the .table files of data_dir, in glob's order
  constructed,          \* the MagpieData singleton exists
  available_props,      \* MagpieData.available_props
  all_elemental_props,  \* MagpieData.all_elemental_props
  last,                 \* the call the caller is looking at and its outcome
  memo                  \* an earlier table call the caller kept

vars == <<data_dir, constructed, available_props, all_elemental_props, last, memo>>

NoCall == [op |-> "none"]

Call(op, input, prop, res) ==
  [op |-> op, input |-> input, prop |-> prop, res |-> res]

Idle == last = NoCall

InitObject ==
  /\ constructed = FALSE
  /\ available_props = <<>>
  /\ all_elemental_props = EmptyDict
  /\ last = NoCall
  /\ memo = NoCall

Init == data_dir = ShippedDataDir /\ InitObject

InitBuild == data_dir \in AllDataDirs /\ InitObject

(***************************************************************************)
(* Operations                                                              *)
(***************************************************************************)
\* MagpieData(): __init__ and _parse.  A file that is too short ends the
\* construction with IndexError and leaves no instance.
Construct ==
  /\ Idle
  /\ ~constructed
  /\ LET parsed == ParseTable(data_dir)
     IN IF parsed.ok
        THEN /\ constructed' = TRUE
             /\ available_props' = GlobNames(data_dir)
             /\ all_elemental_props' = parsed.table
             /\ last' = Call("MagpieData", data_dir, "", Failure("none", EmptyDict, EmptyDict))
        ELSE /\ last' = Call("MagpieData", data_dir, "",
                             Failure("IndexError", EmptyDict, EmptyDict))
             /\ UNCHANGED <<constructed, available_props, all_elemental_props>>
  /\ UNCHANGED <<data_dir, memo>>

\* MagpieData().get_property(comp, property_name)
MagpieGetProperty ==
  /\ Idle
  /\ constructed
  /\ \E input \in TableInputs, property_name \in TableProps :
       LET comp == ToComposition(input)
       IN \E symbols \in SortedOrders(IF comp.ok THEN DOMAIN comp.amt ELSE {}) :
            LET r == MagpieGetPropertyResult(input, property_name, symbols,
                                             available_props, all_elemental_props)
            IN /\ last' = Call("MagpieData.get_property", input, property_name, r.res)
               /\ all_elemental_props' = r.table
  /\ UNCHANGED <<data_dir, constructed, available_props, memo>>

\* PymatgenData().get_property(comp, property_name)
PymatgenGetProperty ==
  /\ Idle
  /\ \E input \in LiveInputs, property_name \in LiveProps :
       LET resolved == ResolveComposition(input)
       IN \E symbols \in SortedOrders(DOMAIN resolved.el_amt) :
            last' = Call("PymatgenData.get_property", input, property_name,
                         PymatgenGetPropertyResult(resolved, property_name, symbols))
  /\ UNCHANGED <<data_dir, constructed, available_props, all_elemental_props, memo>>

\* PymatgenData.get_composition_oxidation_state(formula)
GetCompositionOxidationState ==
  /\ Idle
  /\ \E groups \in GroupSeqs :
       last' = [op |-> "get_composition_oxidation_state", groups |-> groups,
                formula |-> FormulaText(groups),
                res |-> get_composition_oxidation_state(FormulaText(groups))]
  /\ UNCHANGED <<data_dir, constructed, available_props, all_elemental_props, memo>>

\* The caller has read the outcome; it may keep one outcome of the table
\* source to compare later calls with.
Return(remember) ==
  /\ ~Idle
  /\ remember => (memo = NoCall /\ last.op = "MagpieData.get_property")
  /\ last' = NoCall
  /\ memo' = IF remember THEN last ELSE memo
  /\ UNCHANGED <<data_dir, constructed, available_props, all_elemental_props>>

Next ==
  \/ Construct
  \/ MagpieGetProperty
  \/ PymatgenGetProperty
  \/ GetCompositionOxidationState
  \/ Return(FALSE)

Spec == Init /\ [][Next]_vars

\* The table source alone, with a caller that compares calls.
NextTable ==
  \/ Construct
  \/ MagpieGetProperty
  \/ \E remember \in BOOLEAN : Return(remember)

SpecTable == Init /\ [][NextTable]_vars

\* Construction alone, over every directory.
NextBuild ==
  \/ Construct
  \/ Return(FALSE)

SpecBuild == InitBuild /\ [][NextBuild]_vars

(***************************************************************************)
(* Properties                                                              *)
(***************************************************************************)
TableCall == last.op = "MagpieData.get_property"

LiveCall == last.op = "PymatgenData.get_property"

ParseCall == last.op = "get_composition_oxidation_state"

Returned == (TableCall \/ LiveCall) /\ last.res.err = "none"

Positions(seq, x) == {i \in 1..Len(seq) : seq[i] = x}

Floor(halves) == halves \div 2

RECURSIVE SumFloors(_, _)
SumFloors(el_amt, keys) ==
  IF keys = {} THEN 0
  ELSE LET k == CHOOSE x \in keys : TRUE
       IN Floor(el_amt[k]) + SumFloors(el_amt, keys \ {k})

\* The value one element resolves to in the call the caller is looking at.
Resolved(sym) ==
  IF TableCall THEN all_elemental_props[last.prop][sym]
  ELSE ElementValue(sym, last.prop, last.res.oxi).value

\* C1: the sequence get_property returns (either source) is ordered by
\* ascending electronegativity of the element each value belongs to, and the
\* values of one element are contiguous.
C1_OrderedByElectronegativity ==
  Returned =>
    LET els == last.res.els
        val == last.res.val
    IN /\ Len(val) = Len(els)
       /\ \A i \in 1..Len(els) : val[i] = Resolved(els[i])
       /\ \A i, j \in 1..Len(els) :
            i < j => Electronegativity(els[i]) <= Electronegativity(els[j])
       /\ \A i, j, k \in 1..Len(els) :
            (i < k /\ k < j /\ els[i] = els[j]) => els[k] = els[i]

\* Fe2O3-like: two atoms of the more electronegative element written first
\* come last in the table source's result.
C1_Witness ==
  /\ TableCall
  /\ last.res.err = "none"
  /\ last.input = StrInput(<<"H", "2", "H", "e">>)
  /\ last.res.els = <<"He", "H", "H">>

\* C2: each element contributes exactly floor(amount) copies of its resolved
\* value, so the length is the sum of the floors; an amount below 1
\* contributes nothing; one element with amount 1 yields the table's value.
C2_FloorOfAmountCopies ==
  Returned =>
    LET els    == last.res.els
        val    == last.res.val
        el_amt == last.res.el_amt
    IN /\ \A sym \in Symbols :
            Cardinality(Positions(els, sym))
              = IF sym \in DOMAIN el_amt THEN Floor(el_amt[sym]) ELSE 0
       /\ Len(val) = SumFloors(el_amt, DOMAIN el_amt)
       /\ \A i \in 1..Len(val) : val[i] = Resolved(els[i])
       /\ \A sym \in DOMAIN el_amt : el_amt[sym] < 2 => Positions(els, sym) = {}
       /\ \A sym \in Symbols :
            (TableCall /\ DOMAIN el_amt = {sym} /\ el_amt[sym] = 2)
              => val = <<all_elemental_props[last.prop][sym]>>

\* Li1.5 H0.5 He2 from the table: one value for Li, none for H, two for He.
C2_Witness ==
  /\ TableCall
  /\ last.res.err = "none"
  /\ last.input.kind = "comp"
  /\ last.input.amt = [sym \in Symbols |->
                         IF sym = "Li" THEN 3 ELSE IF sym = "H" THEN 1 ELSE 4]
  /\ last.res.els = <<"He", "He", "Li">>

DiscoveredNames == {data_dir[i].name : i \in 1..Len(data_dir)}

UnknownPropertyRule ==
  /\ last.prop \notin DiscoveredNames =>
       /\ last.res.err = "UnknownProperty"
       /\ last.res.val = <<>>
       /\ {last.res.msg[i] : i \in 1..Len(last.res.msg)} = DiscoveredNames
  /\ last.prop \in DiscoveredNames => last.res.err # "UnknownProperty"

\* C3, as stated: whenever the property name is not among the names
\* discovered at construction, the table source's call fails with the
\* unknown-property error listing all of them and returns nothing; a name
\* among them never raises it.
C3_UnknownPropertyAlways == TableCall => UnknownPropertyRule

\* C3, amended: the same, for a composition argument that Composition()
\* accepts; the argument is converted before the name is looked at.
C3_UnknownPropertyOnValidComposition ==
  (TableCall /\ ToComposition(last.input).ok) => UnknownPropertyRule

C3_Witness ==
  /\ TableCall
  /\ last.prop = "Volume"
  /\ last.input = StrInput(<<"H", "2", "H", "e">>)
  /\ last.res.err = "UnknownProperty"
  /\ last.res.msg = <<"OxidationStates", "MeltingT">>

\* C4: for ionic_radii the live source fails with the missing-oxidation-state
\* error whenever an element of the composition has no oxidation state (the
\* map empty, or not empty and without that element); when every element has
\* one, each value is the ionic radius keyed by the element's state.
C4_MissingOxidationStateError ==
  (LiveCall /\ last.prop = "ionic_radii") =>
    LET el_amt == last.res.el_amt
        oxi    == last.res.oxi
    IN /\ (\E sym \in DOMAIN el_amt : sym \notin DOMAIN oxi)
            => last.res.err = "MissingOxidationState"
       /\ ((\A sym \in DOMAIN el_amt : sym \in DOMAIN oxi) /\ last.res.err = "none")
            => \A i \in 1..Len(last.res.val) :
                 last.res.val[i]
                   = Float(ElementOf(last.res.els[i]).ionic_radii[oxi[last.res.els[i]]])

\* The text with the first occurrence of each token taken out, in order, and
\* everything else kept.
RECURSIVE RemoveTokens(_, _)
RemoveTokens(text, tokens) ==
  IF tokens = <<>> THEN text
  ELSE LET parts == StrSplitOnce(text, Head(tokens))
       IN IF Len(parts) # 2 THEN text
          ELSE parts[1] \o RemoveTokens(parts[2], Tail(tokens))

\* C5: when at least one token is extracted, the composition returned is that
\* of the original string with exactly the first occurrence of each token
\* removed, the text after the last token included.
C5_OnlyTokensRemoved ==
  (ParseCall /\ last.res.err = "none" /\ last.res.tokens # <<>>) =>
    LET kept == CompositionOf(RemoveTokens(last.formula, last.res.tokens))
    IN kept.ok /\ last.res.comp = kept.amt

\* The signed integer an oxidation text such as "+1" or " -2" writes.
SignedValue(ox) ==
  LET t == Strip(ox)
  IN IF Head(t) = "-" THEN 0 - DigitsValue(Tail(t), 0) ELSE DigitsValue(Tail(t), 0)

EveryGroupHasState(groups) ==
  groups # <<>> /\ \A i \in 1..Len(groups) : groups[i].ox # <<>>

C7_PlainFormulaUnchanged ==
  (ParseCall /\ ~HasSign(last.formula)) =>
    /\ last.res.err = "none"
    /\ CompositionOf(last.formula).ok
    /\ last.res.comp = CompositionOf(last.formula).amt
    /\ last.res.oxi = EmptyDict

\* "H2He"
C7_Witness ==
  /\ ParseCall
  /\ last.formula = <<"H", "2", "H", "e">>
  /\ last.res.err = "none"
  /\ last.res.comp = [sym \in {"H", "He"} |-> IF sym = "H" THEN 4 ELSE 2]
  /\ last.res.oxi = EmptyDict

\* C8: once constructed, the table and the available names stay what the
\* construction made of the files, whatever calls succeed or fail, and a call
\* of the table source returns what an earlier call with the same
\* composition and property returned.
C8_RepeatedCallsAgree ==
  /\ constructed =>
       /\ all_elemental_props = ParseTable(data_dir).table
       /\ available_props = GlobNames(data_dir)
  /\ (memo # NoCall /\ TableCall /\ last.input = memo.input /\ last.prop = memo.prop)
       => last.res = memo.res

\* A second call, after the kept one was returned, gave the same three values.
C8_Witness ==
  /\ memo # NoCall
  /\ TableCall
  /\ last.input = memo.input
  /\ last.prop = memo.prop
  /\ last.res.err = "none"
  /\ last.res = memo.res
  /\ Len(last.res.val) = 3

\* C9: every entry of a sequence the live source returns is a float, never
\* None, also when the element has no value for the attribute.
C9_LiveValuesAreFloats ==
  (LiveCall /\ last.res.err = "none") =>
    \A i \in 1..Len(last.res.val) : last.res.val[i].t = "float"

SingleFloat(line) == Len(line) = 1 /\ FloatOfToken(line[1]).ok

\* C10: construction never fails over a line that is no number; afterwards
\* every available property has an entry for every atomic number, and for a
\* property other than OxidationStates the cell of atomic number z is the
\* float of line z of its file, or not-a-number when line z is no single
\* float.
C10_TableFromLines ==
  /\ (last.op = "MagpieData" /\ last.res.err # "none")
       => \E i \in 1..Len(data_dir) : Len(data_dir[i].lines) < MaxZ
  /\ constructed =>
       \A i \in 1..Len(data_dir) :
         LET file == data_dir[i]
         IN /\ InList(file.name, available_props)
            /\ file.name \in DOMAIN all_elemental_props
            /\ \A z \in 1..MaxZ :
                 /\ FromZ(z) \in DOMAIN all_elemental_props[file.name]
                 /\ file.name # "OxidationStates" =>
                      all_elemental_props[file.name][FromZ(z)]
                        = IF SingleFloat(file.lines[z])
                          THEN Float(FloatOfToken(file.lines[z][1]).v)
                          ELSE NaN

\* Two files; in MeltingT the first line is "Missing" and the others differ.
C10_Witness ==
  /\ constructed
  /\ Len(data_dir) = 2
  /\ \E i \in 1..2 :
       /\ data_dir[i].name = "MeltingT"
       /\ data_dir[i].lines = << <<"Missing">>, <<"2">>, <<"1">> >>
  /\ all_elemental_props["MeltingT"]
       = [sym \in Symbols |->
            IF sym = "H" THEN NaN ELSE IF sym = "He" THEN Float(200) ELSE Float(100)]

=============================================================================
